---- MODULE Spec2Model ----
(***************************************************************************)
(* Reverse-auction engine of app.py: the auction lifecycle                 *)
(* (create_auction, add_item, start_auction, close_if_expired) and bid     *)
(* arbitration (place_bid), run by concurrent Streamlit sessions against   *)
(* one shared database.  Every run_query call opens its own connection and *)
(* commits on its own, so one run_query is one atomic step and a handler   *)
(* that issues several queries is several steps that other sessions and    *)
(* the clock may interleave with.                                          *)
(***************************************************************************)
EXTENDS Integers, Sequences, FiniteSets, TLC

VARIABLES now, auctions, items, bids, pc, loc

vars == <<now, auctions, items, bids, pc, loc>>

(* ------------------------------ bounds -------------------------------- *)

MaxTime == 1
MaxBids == 3

Procs == {"p1", "p2"}
SeqProc == "p1"
Steps == {50}
Durations == {1}
StartPrices == {1000}
BidValues == {850, 875, 900, 920, 950}

AuctionIds == {1}
ItemIds == {1}

(* st.session_state.user['id']: the supplier logged in to a session *)
SupplierOf(p) == p

(* Python None / SQL NULL; prices and times are never negative. *)
NULL == 0 - 1

(* ------------------------- return messages ---------------------------- *)

InvalidItem == "Invalid item"
AuctionNotLive == "Auction is not live"
CannotDetermine == "Cannot determine current price"
BidNotLower == "Bid must be less than current minimum (reverse auction)"
BelowMinimumStep == "Bid must reduce price by at least the decrement step"
NotStepMultiple == "Bid decrease must be in multiples of the decrement step"
BidPlaced == "Bid placed"

(* --------------------------- SQL helpers ------------------------------ *)

SetMin(S) == CHOOSE x \in S : \A y \in S : x <= y

(* SELECT ... FROM bids b WHERE b.item_id = i, in insertion order *)
BidsOf(i) == SelectSeq(bids, LAMBDA b : b.item_id = i)

BidValuesOf(i) == {bids[k].bid_value : k \in {j \in 1..Len(bids) : bids[j].item_id = i}}

(* (SELECT MIN(b.bid_value) FROM bids b WHERE b.item_id = i): NULL on no row *)
MinBid(i) == IF BidValuesOf(i) = {} THEN NULL ELSE SetMin(BidValuesOf(i))

Coalesce(x, y) == IF x # NULL THEN x ELSE y

(* current_min column of place_bid's query: COALESCE(MIN(bids), i.start_price) *)
PlaceBidCurrentMin(i) == Coalesce(MinBid(i), items[i].start_price)

(* current_min column of get_items' query: COALESCE(MIN(bids), a.start_price) *)
GetItemsCurrentMin(i) == Coalesce(MinBid(i), auctions[items[i].auction_id].start_price)

(* --------------------------- session state ---------------------------- *)

NoLoc == [auction_id |-> NULL, item_id |-> NULL, supplier_id |-> "", bid_value |-> NULL,
          now |-> NULL, status |-> "", decrement |-> NULL, current_min |-> NULL,
          ok |-> FALSE, msg |-> ""]

InFlightBids == Cardinality({p \in Procs : pc[p] \in {"bid_fallback", "bid_insert"}})

Init ==
    /\ now = 0
    /\ auctions = <<>>
    /\ items = <<>>
    /\ bids = <<>>
    /\ pc = [p \in Procs |-> "idle"]
    /\ loc = [p \in Procs |-> NoLoc]

(* wall-clock time passes *)
Tick ==
    /\ now < MaxTime
    /\ now' = now + 1
    /\ UNCHANGED <<auctions, items, bids, pc, loc>>

(* ------------------------ session step helpers ------------------------ *)

Goto(p, label, l) ==
    /\ pc' = [pc EXCEPT ![p] = label]
    /\ loc' = [loc EXCEPT ![p] = l]

(* what the caller holds once place_bid has returned: its arguments and
   (ok, msg); the callee's locals are gone *)
Returned(l, ok, msg) ==
    [NoLoc EXCEPT !.item_id = l.item_id, !.bid_value = l.bid_value, !.ok = ok, !.msg = msg]

(* Reject gone wrong: the row is written before the rules are looked at, so
   a rejected call still leaves a bid behind *)
RejectAfterInsert(p, l, reason) ==
    /\ Goto(p, "bid_done", Returned(l, FALSE, reason))
    /\ bids' = Append(bids, [item_id |-> l.item_id, supplier_id |-> l.supplier_id,
                             bid_value |-> l.bid_value, bid_time |-> now])
    /\ UNCHANGED <<auctions, items>>

(* return False, msg: the call ends and nothing is written *)
Reject(p, l, reason) ==
    /\ Goto(p, "bid_done", Returned(l, FALSE, reason))
    /\ UNCHANGED <<auctions, items, bids>>

(* Validate gone wrong: diff <= decrement in place of diff < decrement, so a
   reduction by exactly one step is turned away *)
ValidateStepOffByOne(current_min, bid_value, decrement) ==
    LET diff == current_min - bid_value IN
    IF diff <= 0 THEN BidNotLower
    ELSE IF diff <= decrement THEN BelowMinimumStep
    ELSE IF (diff % decrement) # 0 THEN NotStepMultiple
    ELSE ""

(* Validate gone wrong: the minimum-step rule is missing, so a too-small
   reduction is reported as not a multiple of the step *)
ValidateNoMinimumStep(current_min, bid_value, decrement) ==
    LET diff == current_min - bid_value IN
    IF diff <= 0 THEN BidNotLower
    ELSE IF (diff % decrement) # 0 THEN NotStepMultiple
    ELSE ""

(* Validate gone wrong: the multiple-of-step rule is missing *)
ValidateNoMultipleRule(current_min, bid_value, decrement) ==
    LET diff == current_min - bid_value IN
    IF diff <= 0 THEN BidNotLower
    ELSE IF diff < decrement THEN BelowMinimumStep
    ELSE ""

(* lines 113-119: the step rules, first failing rule wins; "" when all pass *)
Validate(current_min, bid_value, decrement) ==
    LET diff == current_min - bid_value IN
    IF diff <= 0 THEN BidNotLower
    ELSE IF diff < decrement THEN BelowMinimumStep
    ELSE IF (diff % decrement) # 0 THEN NotStepMultiple
    ELSE ""

(* lines 110-121 once current_min is known: reject, or go on to the INSERT *)
Decide(p, l) ==
    IF l.current_min = NULL THEN Reject(p, l, CannotDetermine)
    ELSE IF Validate(l.current_min, l.bid_value, l.decrement) # ""
         THEN Reject(p, l, Validate(l.current_min, l.bid_value, l.decrement))
         ELSE /\ Goto(p, "bid_insert", l)
              /\ UNCHANGED <<auctions, items, bids>>

(* ----------------------------- operations ----------------------------- *)

(* create_auction: one INSERT; ids are serial *)
CreateAuction(p) ==
    /\ pc[p] = "idle"
    /\ Cardinality(DOMAIN auctions) + 1 \in AuctionIds
    /\ \E decrement_step \in Steps, duration_minutes \in Durations, start_price \in StartPrices :
          auctions' = auctions @@
              ((Cardinality(DOMAIN auctions) + 1) :>
                  [decrement_step |-> decrement_step, duration_minutes |-> duration_minutes,
                   start_price |-> start_price, start_time |-> now,
                   end_time |-> now + duration_minutes, status |-> "SCHEDULED"])
    /\ UNCHANGED <<now, items, bids, pc, loc>>

(* AddItem gone wrong: the items row carries a start_price of its own (a
   column default of 0), which place_bid's COALESCE then picks up *)
AddItemDefaultPrice(p) ==
    /\ pc[p] = "idle"
    /\ Cardinality(DOMAIN items) + 1 \in ItemIds
    /\ \E auction_id \in DOMAIN auctions :
          items' = items @@
              ((Cardinality(DOMAIN items) + 1) :> [auction_id |-> auction_id, start_price |-> 0])
    /\ UNCHANGED <<now, auctions, bids, pc, loc>>

(* add_item: one INSERT.  The INSERT names no start_price, so the column
   place_bid reads as i.start_price stays NULL; lines 105-108 are the code's
   own provision for that. *)
AddItem(p) ==
    /\ pc[p] = "idle"
    /\ Cardinality(DOMAIN items) + 1 \in ItemIds
    /\ \E auction_id \in DOMAIN auctions :
          items' = items @@
              ((Cardinality(DOMAIN items) + 1) :> [auction_id |-> auction_id, start_price |-> NULL])
    /\ UNCHANGED <<now, auctions, bids, pc, loc>>

(* start_auction, line 74: now = datetime.utcnow() *)
StartCall(p) ==
    /\ pc[p] = "idle"
    /\ \E auction_id \in AuctionIds :
          Goto(p, "start_update", [NoLoc EXCEPT !.auction_id = auction_id, !.now = now])
    /\ UNCHANGED <<now, auctions, items, bids>>

(* line 75: UPDATE auctions SET status='LIVE', start_time=now WHERE id *)
StartSetLive(p) ==
    /\ pc[p] = "start_update"
    /\ auctions' = IF loc[p].auction_id \in DOMAIN auctions
                   THEN [auctions EXCEPT ![loc[p].auction_id] =
                            [@ EXCEPT !.status = "LIVE", !.start_time = loc[p].now]]
                   ELSE auctions
    /\ Goto(p, "start_select", loc[p])
    /\ UNCHANGED <<now, items, bids>>

(* lines 76-78: SELECT duration_minutes; end_time = now + duration *)
StartSelect(p) ==
    /\ pc[p] = "start_select"
    /\ IF loc[p].auction_id \in DOMAIN auctions
       THEN Goto(p, "start_end_time",
                 [loc[p] EXCEPT !.now = loc[p].now + auctions[loc[p].auction_id].duration_minutes])
       ELSE Goto(p, "idle", NoLoc)
    /\ UNCHANGED <<now, auctions, items, bids>>

(* line 79: UPDATE auctions SET end_time WHERE id *)
StartSetEndTime(p) ==
    /\ pc[p] = "start_end_time"
    /\ auctions' = [auctions EXCEPT ![loc[p].auction_id] = [@ EXCEPT !.end_time = loc[p].now]]
    /\ Goto(p, "idle", NoLoc)
    /\ UNCHANGED <<now, items, bids>>

(* close_if_expired, line 83: now = datetime.utcnow() *)
CloseCall(p) ==
    /\ pc[p] = "idle"
    /\ \E auction_id \in AuctionIds :
          Goto(p, "close_select", [NoLoc EXCEPT !.auction_id = auction_id, !.now = now])
    /\ UNCHANGED <<now, auctions, items, bids>>

(* Expired gone wrong: now > end_time in place of now >= end_time *)
ExpiredStrict(row, t) == row.status = "LIVE" /\ row.end_time # NULL /\ t > row.end_time

(* line 89: status == 'LIVE' and end_time and now >= end_time *)
Expired(row, t) == row.status = "LIVE" /\ row.end_time # NULL /\ t >= row.end_time

(* lines 84-89: SELECT end_time, status; decide *)
CloseSelect(p) ==
    /\ pc[p] = "close_select"
    /\ IF loc[p].auction_id \in DOMAIN auctions
          /\ Expired(auctions[loc[p].auction_id], loc[p].now)
       THEN Goto(p, "close_update", [loc[p] EXCEPT !.now = NULL])
       ELSE Goto(p, "idle", NoLoc)
    /\ UNCHANGED <<now, auctions, items, bids>>

(* line 90: UPDATE auctions SET status='CLOSED' WHERE id *)
CloseUpdate(p) ==
    /\ pc[p] = "close_update"
    /\ auctions' = [auctions EXCEPT ![loc[p].auction_id] = [@ EXCEPT !.status = "CLOSED"]]
    /\ Goto(p, "idle", NoLoc)
    /\ UNCHANGED <<now, items, bids>>

(* StatusIsLive gone wrong: only a not-yet-started auction is turned away *)
StatusNotScheduled(status) == status # "SCHEDULED"

(* line 101: data['status'] != 'LIVE' rejects *)
StatusIsLive(status) == status = "LIVE"

(* lines 107-108: SELECT start_price FROM auctions WHERE id; None on no row *)
FallbackStartPrice(auction_id) ==
    IF auction_id \in DOMAIN auctions THEN auctions[auction_id].start_price ELSE NULL

(* lines 94-108 read on one database state: the current_min place_bid
   validates against, the column of its first query or else the fallback *)
PlaceBidResolvedMin(i) ==
    IF PlaceBidCurrentMin(i) # NULL THEN PlaceBidCurrentMin(i)
    ELSE FallbackStartPrice(items[i].auction_id)

(* place_bid, lines 94-105: the joined SELECT, then the status check *)
PlaceBidSelect(p) ==
    /\ pc[p] = "idle"
    /\ Len(bids) + InFlightBids < MaxBids
    /\ \E item_id \in ItemIds, bid_value \in BidValues :
          LET l == [NoLoc EXCEPT !.supplier_id = SupplierOf(p), !.item_id = item_id,
                                 !.bid_value = bid_value]
          IN  IF item_id \notin DOMAIN items \/ items[item_id].auction_id \notin DOMAIN auctions
              THEN Reject(p, l, InvalidItem)
              ELSE LET a == auctions[items[item_id].auction_id]
                       data == [l EXCEPT !.decrement = a.decrement_step, !.status = a.status,
                                         !.current_min = PlaceBidCurrentMin(item_id),
                                         !.auction_id = items[item_id].auction_id]
                   IN  IF ~StatusIsLive(data.status) THEN Reject(p, data, AuctionNotLive)
                       ELSE IF data.current_min = NULL
                            THEN /\ Goto(p, "bid_fallback", data)
                                 /\ UNCHANGED <<auctions, items, bids>>
                            ELSE Decide(p, data)
    /\ UNCHANGED now

(* lines 106-108: SELECT start_price FROM auctions WHERE id *)
PlaceBidFallback(p) ==
    /\ pc[p] = "bid_fallback"
    /\ Decide(p, [loc[p] EXCEPT !.current_min = FallbackStartPrice(loc[p].auction_id)])
    /\ UNCHANGED now

(* PlaceBidInsert gone wrong: one row per supplier and item, a supplier's
   new bid overwriting the old one *)
PlaceBidUpsert(p) ==
    LET row == [item_id |-> loc[p].item_id, supplier_id |-> loc[p].supplier_id,
                bid_value |-> loc[p].bid_value, bid_time |-> now]
        old == {k \in 1..Len(bids) : /\ bids[k].item_id = row.item_id
                                      /\ bids[k].supplier_id = row.supplier_id}
    IN  /\ pc[p] = "bid_insert"
        /\ bids' = IF old = {} THEN Append(bids, row)
                   ELSE [k \in 1..Len(bids) |-> IF k \in old THEN row ELSE bids[k]]
        /\ Goto(p, "bid_done", Returned(loc[p], TRUE, BidPlaced))
        /\ UNCHANGED <<now, auctions, items>>

(* PlaceBidInsert gone wrong: an accepted bid also pushes the auction's
   end_time out by one duration *)
PlaceBidInsertExtends(p) ==
    /\ pc[p] = "bid_insert"
    /\ bids' = Append(bids, [item_id |-> loc[p].item_id, supplier_id |-> loc[p].supplier_id,
                             bid_value |-> loc[p].bid_value, bid_time |-> now])
    /\ auctions' = [auctions EXCEPT ![loc[p].auction_id] =
                        [@ EXCEPT !.end_time = now + auctions[loc[p].auction_id].duration_minutes]]
    /\ Goto(p, "bid_done", Returned(loc[p], TRUE, BidPlaced))
    /\ UNCHANGED <<now, items>>

(* line 121: INSERT INTO bids ...; line 122: return True, 'Bid placed' *)
PlaceBidInsert(p) ==
    /\ pc[p] = "bid_insert"
    /\ bids' = Append(bids, [item_id |-> loc[p].item_id, supplier_id |-> loc[p].supplier_id,
                             bid_value |-> loc[p].bid_value, bid_time |-> now])
    /\ Goto(p, "bid_done", Returned(loc[p], TRUE, BidPlaced))
    /\ UNCHANGED <<now, auctions, items>>

(* lines 288-292: the caller takes (ok, msg) *)
PlaceBidReturn(p) ==
    /\ pc[p] = "bid_done"
    /\ Goto(p, "idle", NoLoc)
    /\ UNCHANGED <<now, auctions, items, bids>>

(* ------------------------------ read side ---------------------------- *)

(* bids.id of the rows of item i: rows are numbered in insertion order *)
BidIdsOf(i) == {k \in 1..Len(bids) : bids[k].item_id = i}

(* generate_pdf_summary, line 152: ... WHERE b.item_id=%s ORDER BY b.bid_value
   ASC LIMIT 1.  The rows the query may return: SQL leaves the order of rows
   of equal bid_value open.  Empty when the item has no bid ('No bids'). *)
WinnerCandidates(i) ==
    {k \in BidIdsOf(i) : \A j \in BidIdsOf(i) : bids[k].bid_value <= bids[j].bid_value}

(* get_bids_for_auction, line 130: ... ORDER BY b.bid_time DESC.  The rows of
   item i that may come first: SQL leaves the order of rows of equal bid_time
   open. *)
ListingFirstCandidates(i) ==
    {k \in BidIdsOf(i) : \A j \in BidIdsOf(i) : bids[k].bid_time >= bids[j].bid_time}

Step(p) ==
    \/ CreateAuction(p)
    \/ AddItem(p)
    \/ StartCall(p)
    \/ StartSetLive(p)
    \/ StartSelect(p)
    \/ StartSetEndTime(p)
    \/ CloseCall(p)
    \/ CloseSelect(p)
    \/ CloseUpdate(p)
    \/ PlaceBidSelect(p)
    \/ PlaceBidFallback(p)
    \/ PlaceBidInsert(p)
    \/ PlaceBidReturn(p)

(* any number of sessions, interleaved at run_query granularity *)
Next == Tick \/ \E p \in Procs : Step(p)

Spec == Init /\ [][Next]_vars

(* one session: calls never overlap, only the clock moves between queries *)
NextSeq == Tick \/ Step(SeqProc)

SpecSeq == Init /\ [][NextSeq]_vars

(* ======================= properties of the engine ===================== *)

(* the derived current minimum of the data model: the lowest accepted bid
   of the item, or the owning auction's start_price when it has none *)
DerivedMinIn(bs, as, is, i) ==
    LET vs == {bs[k].bid_value : k \in {j \in 1..Len(bs) : bs[j].item_id = i}}
    IN  IF vs = {} THEN as[is[i].auction_id].start_price ELSE SetMin(vs)

DerivedMin(i) == DerivedMinIn(bids, auctions, items, i)

(* the step rules as the contract states them *)
PassesStepRules(m, v, s) == 0 < m - v /\ (m - v) % s = 0

FirstFailingRule(m, v, s) ==
    IF m - v <= 0 THEN BidNotLower
    ELSE IF m - v < s THEN BelowMinimumStep
    ELSE NotStepMultiple

(* session p commits its INSERT in this step *)
Inserts(p) == pc[p] = "bid_insert" /\ pc'[p] = "bid_done"

(* place_bid returns to session p's caller in this step *)
Returns(p) == pc[p] # "bid_done" /\ pc'[p] = "bid_done"

(* C1: the accepted bids of every item, in order of insertion, are strictly
   decreasing in value. *)
C1_StrictlyDecreasing ==
    \A i \in DOMAIN items :
        \A j, k \in 1..Len(BidsOf(i)) :
            j < k => BidsOf(i)[j].bid_value > BidsOf(i)[k].bid_value

(* C2: a bid is never committed on the basis of a stale minimum: at the
   moment of its INSERT the minimum it was validated against is still the
   item's current minimum, and it passes the step rules against it. *)
C2_NoStaleAccept ==
    [][\A p \in Procs :
          Inserts(p) =>
              /\ loc[p].current_min = DerivedMin(loc[p].item_id)
              /\ PassesStepRules(DerivedMin(loc[p].item_id), loc[p].bid_value,
                                 auctions[items[loc[p].item_id].auction_id].decrement_step)]_vars

(* C3: at the moment a bid is inserted the owning auction is LIVE and its
   end_time is still in the future. *)
C3_InsertOnlyWhileLive ==
    [][\A p \in Procs :
          Inserts(p) =>
              LET a == auctions[items[loc[p].item_id].auction_id]
              IN  a.status = "LIVE" /\ a.end_time > now]_vars

(* C4: a single place_bid call on a resolvable item of a LIVE auction with
   current minimum m and step s accepts v iff 0 < m - v and (m - v) mod s = 0,
   and otherwise returns the reason of the first failing rule in the order
   InvalidItem, AuctionNotLive, BidNotLower, BelowMinimumStep,
   NotStepMultiple. *)
C4_AcceptIffStepRules ==
    [][\A p \in Procs :
          Returns(p) =>
              LET i == loc'[p].item_id
                  v == loc'[p].bid_value
              IN  IF i \notin DOMAIN items
                  THEN ~loc'[p].ok /\ loc'[p].msg = InvalidItem
                  ELSE LET a == auctions[items[i].auction_id]
                           m == DerivedMin(i)
                           s == a.decrement_step
                       IN  IF a.status # "LIVE"
                           THEN ~loc'[p].ok /\ loc'[p].msg = AuctionNotLive
                           ELSE /\ loc'[p].ok <=> PassesStepRules(m, v, s)
                                /\ loc'[p].ok =>
                                      /\ loc'[p].msg = BidPlaced
                                      /\ Len(bids') = Len(bids) + 1
                                      /\ bids'[Len(bids')].bid_value = v
                                      /\ bids'[Len(bids')].item_id = i
                                /\ ~loc'[p].ok =>
                                      /\ loc'[p].msg = FirstFailingRule(m, v, s)
                                      /\ bids' = bids]_vars

C4_Witness ==
    /\ pc[SeqProc] = "bid_done"
    /\ loc[SeqProc].msg = NotStepMultiple
    /\ Len(bids) = 1

(* the accepted bid values of item i, in order of acceptance *)
AcceptedValues(i) == [k \in 1..Len(BidsOf(i)) |-> BidsOf(i)[k].bid_value]

(* one step of the scenario: on an item of a LIVE auction with start_price
   1000 and step 50 whose accepted bids so far are prior (current minimum m),
   the bid v returns msg, and an accepted bid becomes the new minimum *)
ScenarioStep(p, prior, m, v, msg) ==
    (/\ Returns(p)
     /\ loc'[p].item_id \in DOMAIN items
     /\ auctions[items[loc'[p].item_id].auction_id].status = "LIVE"
     /\ auctions[items[loc'[p].item_id].auction_id].start_price = 1000
     /\ auctions[items[loc'[p].item_id].auction_id].decrement_step = 50
     /\ AcceptedValues(loc'[p].item_id) = prior
     /\ DerivedMin(loc'[p].item_id) = m
     /\ loc'[p].bid_value = v)
    => /\ loc'[p].msg = msg
       /\ loc'[p].ok <=> (msg = BidPlaced)
       /\ (msg = BidPlaced) => DerivedMinIn(bids', auctions', items', loc'[p].item_id) = v
       /\ (msg # BidPlaced) => DerivedMinIn(bids', auctions', items', loc'[p].item_id) = m

(* C5 as stated: 950 accepted, 900 accepted, 920 BidNotLower,
   875 NotStepMultiple, 850 accepted. *)
C5_ScenarioAsStated ==
    [][\A p \in Procs :
          /\ ScenarioStep(p, <<>>, 1000, 950, BidPlaced)
          /\ ScenarioStep(p, <<950>>, 950, 900, BidPlaced)
          /\ ScenarioStep(p, <<950, 900>>, 900, 920, BidNotLower)
          /\ ScenarioStep(p, <<950, 900>>, 900, 875, NotStepMultiple)
          /\ ScenarioStep(p, <<950, 900>>, 900, 850, BidPlaced)]_vars

(* C5, amended: 950 accepted (minimum 950), 900 accepted (minimum 900),
   920 BidNotLower, 875 BelowMinimumStep (diff = 25 < 50), 850 accepted
   (minimum 850). *)
C5_ScenarioAmended ==
    [][\A p \in Procs :
          /\ ScenarioStep(p, <<>>, 1000, 950, BidPlaced)
          /\ ScenarioStep(p, <<950>>, 950, 900, BidPlaced)
          /\ ScenarioStep(p, <<950, 900>>, 900, 920, BidNotLower)
          /\ ScenarioStep(p, <<950, 900>>, 900, 875, BelowMinimumStep)
          /\ ScenarioStep(p, <<950, 900>>, 900, 850, BidPlaced)]_vars

C5_Witness ==
    /\ pc[SeqProc] = "bid_done"
    /\ Len(bids) = 2
    /\ bids[1].bid_value = 950
    /\ bids[2].bid_value = 900
    /\ loc[SeqProc].bid_value = 875
    /\ loc[SeqProc].msg = BelowMinimumStep

(* C6: start_auction on an auction that is not SCHEDULED has no effect:
   its first UPDATE leaves the auction's row as it was. *)
C6_StartOnlyFromScheduled ==
    [][\A p \in Procs :
          (/\ pc[p] = "start_update"
           /\ pc'[p] = "start_select"
           /\ loc[p].auction_id \in DOMAIN auctions
           /\ auctions[loc[p].auction_id].status # "SCHEDULED")
          => auctions' = auctions]_vars

(* C7: status only moves forward: LIVE never goes back to SCHEDULED and
   CLOSED is terminal. *)
C7_StatusMonotonic ==
    [][\A a \in DOMAIN auctions :
          /\ auctions[a].status = "LIVE" => auctions'[a].status # "SCHEDULED"
          /\ auctions[a].status = "CLOSED" => auctions'[a].status = "CLOSED"]_vars

(* C8: called sequentially, close_if_expired writes only to a LIVE auction
   whose end_time has passed, and then sets nothing but status = CLOSED; on a
   SCHEDULED, a CLOSED or an unexpired LIVE auction (and on a missing one) it
   returns without writing, so a repeated call changes nothing. *)
C8_CloseIdempotentSeq ==
    [][\A p \in Procs :
          LET a == loc[p].auction_id
              due == /\ a \in DOMAIN auctions
                     /\ auctions[a].status = "LIVE"
                     /\ auctions[a].end_time <= loc[p].now
          IN  /\ (pc[p] = "close_select" /\ pc'[p] # "close_select") =>
                    /\ auctions' = auctions
                    /\ due => pc'[p] = "close_update"
                    /\ ~due => pc'[p] = "idle"
              /\ (pc[p] = "close_update" /\ pc'[p] # "close_update") =>
                    /\ auctions[a].status = "LIVE"
                    /\ auctions[a].end_time <= now
                    /\ auctions' = [auctions EXCEPT ![a] = [@ EXCEPT !.status = "CLOSED"]]
                    /\ pc'[p] = "idle"]_vars

C8_Witness ==
    /\ pc[SeqProc] = "close_select"
    /\ loc[SeqProc].auction_id \in DOMAIN auctions
    /\ auctions[loc[SeqProc].auction_id].status = "CLOSED"

(* C9: the CLOSED transition is applied once: every UPDATE that sets
   status = CLOSED finds the auction still LIVE (a racing second caller sees
   CLOSED and writes nothing). *)
C9_CloseAppliedOnce ==
    [][\A p \in Procs :
          (pc[p] = "close_update" /\ pc'[p] = "idle")
          => auctions[loc[p].auction_id].status = "LIVE"]_vars

(* C10: every step of a place_bid call except the accepting INSERT leaves
   auctions, items and bids unchanged; a rejected call returns ok = False
   having written nothing, and the session is left as before the call. *)
C10_RejectedBidNoEffect ==
    [][\A p \in Procs :
          /\ (/\ pc'[p] # pc[p]
              /\ pc'[p] \in {"bid_fallback", "bid_insert", "bid_done"}
              /\ ~(pc'[p] = "bid_done" /\ loc'[p].ok))
             => UNCHANGED <<auctions, items, bids>>
          /\ (Returns(p) /\ loc'[p].msg # BidPlaced) =>
                /\ ~loc'[p].ok
                /\ UNCHANGED <<auctions, items, bids>>
          /\ (pc[p] = "bid_done" /\ pc'[p] # "bid_done") =>
                /\ pc'[p] = "idle"
                /\ loc'[p] = NoLoc
                /\ UNCHANGED <<auctions, items, bids>>]_vars

C10_Witness ==
    \E p \in Procs :
        /\ pc[p] = "bid_done"
        /\ ~loc[p].ok
        /\ loc[p].msg = BidNotLower
        /\ Len(bids) > 0

(* C11: for every item the winner found by scanning its bids for the minimum
   value is its most recently accepted bid (the first of its rows in the
   most-recent-first listing), and there is no winner exactly when the item
   has no accepted bid. *)
C11_WinnerIsMostRecent ==
    \A i \in DOMAIN items :
        /\ (WinnerCandidates(i) = {}) <=> (BidIdsOf(i) = {})
        /\ \A w \in WinnerCandidates(i) : w \in ListingFirstCandidates(i)

(* C12: while an auction is CLOSED no step changes the winner or the current
   minimum of any of its items. *)
C12_FrozenAfterClose ==
    [][\A i \in DOMAIN items :
          auctions[items[i].auction_id].status = "CLOSED" =>
              /\ DerivedMin(i)' = DerivedMin(i)
              /\ WinnerCandidates(i)' = WinnerCandidates(i)]_vars

(* C13: close_if_expired on a LIVE auction whose end_time has passed goes on
   to its UPDATE, which leaves the auction CLOSED; and a place_bid call that
   starts on an item of a CLOSED auction returns at once with 'Auction is not
   live', whatever the bid value, and writes nothing. *)
C13_ClosedThenNotLive ==
    [][\A p \in Procs :
          /\ (/\ pc[p] = "close_select"
              /\ pc'[p] # "close_select"
              /\ loc[p].auction_id \in DOMAIN auctions
              /\ auctions[loc[p].auction_id].status = "LIVE"
              /\ auctions[loc[p].auction_id].end_time <= loc[p].now)
             => pc'[p] = "close_update"
          /\ (pc[p] = "close_update" /\ pc'[p] # "close_update")
             => auctions'[loc[p].auction_id].status = "CLOSED"
          /\ (/\ pc[p] = "idle"
              /\ pc'[p] \in {"bid_fallback", "bid_insert", "bid_done"}
              /\ loc'[p].item_id \in DOMAIN items
              /\ auctions[items[loc'[p].item_id].auction_id].status = "CLOSED")
             => /\ pc'[p] = "bid_done"
                /\ ~loc'[p].ok
                /\ loc'[p].msg = AuctionNotLive
                /\ bids' = bids]_vars

C13_Witness ==
    \E p \in Procs :
        /\ pc[p] = "bid_done"
        /\ loc[p].msg = AuctionNotLive
        /\ loc[p].item_id \in DOMAIN items
        /\ auctions[items[loc[p].item_id].auction_id].status = "CLOSED"
        /\ auctions[items[loc[p].item_id].auction_id].end_time <= now

(* C14: bids are append-only: every step keeps each existing bid row as it is
   (item, supplier, value, timestamp) and in place, and the derived current
   minimum of every item never increases. *)
C14_BidsAppendOnly ==
    [][/\ Len(bids') >= Len(bids)
       /\ \A k \in 1..Len(bids) : bids'[k] = bids[k]
       /\ \A i \in DOMAIN items : DerivedMin(i)' <= DerivedMin(i)]_vars

C14_Witness ==
    /\ Len(bids) >= 2
    /\ bids[1].item_id = bids[2].item_id
    /\ bids[2].bid_value > bids[1].bid_value
    /\ DerivedMin(bids[1].item_id) = bids[1].bid_value

(* C15: in every state in which an auction is LIVE, end_time = start_time +
   duration and end_time > start_time. *)
C15_LiveTimesConsistent ==
    \A a \in DOMAIN auctions :
        auctions[a].status = "LIVE" =>
            /\ auctions[a].end_time = auctions[a].start_time + auctions[a].duration_minutes
            /\ auctions[a].end_time > auctions[a].start_time

(* session p takes a step of start_auction or close_if_expired that writes *)
WritesLifecycle(p, a) ==
    /\ pc[p] \in {"start_update", "start_end_time", "close_update"}
    /\ pc'[p] # pc[p]
    /\ loc[p].auction_id = a

(* session p takes a step of place_bid *)
PlaceBidStep(p) ==
    /\ pc'[p] # pc[p]
    /\ (pc'[p] \in {"bid_fallback", "bid_insert", "bid_done"} \/ pc[p] = "bid_done")

(* C16: the row of an existing auction changes only in a writing step of
   start_auction or close_if_expired on that auction, and then only in
   status, start_time and end_time; no step of place_bid changes an auction;
   bids change only by the accepting INSERT of place_bid, which appends the
   caller's bid. *)
C16_Frames ==
    [][/\ \A a \in DOMAIN auctions :
             /\ auctions'[a] # auctions[a] => \E p \in Procs : WritesLifecycle(p, a)
             /\ auctions'[a].decrement_step = auctions[a].decrement_step
             /\ auctions'[a].duration_minutes = auctions[a].duration_minutes
             /\ auctions'[a].start_price = auctions[a].start_price
       /\ \A p \in Procs : PlaceBidStep(p) => auctions' = auctions
       /\ bids' # bids =>
             \E p \in Procs :
                 /\ Inserts(p)
                 /\ Len(bids') = Len(bids) + 1
                 /\ bids'[Len(bids')].item_id = loc[p].item_id
                 /\ bids'[Len(bids')].bid_value = loc[p].bid_value
                 /\ bids'[Len(bids')].supplier_id = SupplierOf(p)]_vars

C16_Witness ==
    /\ Len(bids) >= 1
    /\ \E a \in DOMAIN auctions : auctions[a].status = "CLOSED"
    /\ \E p \in Procs : pc[p] = "start_end_time"

(* C17: for every item the current minimum place_bid validates against
   equals the one get_items reports, and both are the lowest accepted bid of
   the item or, without one, the owning auction's start_price; the value a
   place_bid call takes from its queries is that value at the moment of its
   first SELECT. *)
C17_SameCurrentMin ==
    [][/\ \A i \in DOMAIN items :
             /\ PlaceBidResolvedMin(i) = GetItemsCurrentMin(i)
             /\ GetItemsCurrentMin(i) = DerivedMin(i)
       /\ \A p \in Procs :
             /\ (pc[p] = "idle" /\ pc'[p] = "bid_insert") =>
                   loc'[p].current_min = GetItemsCurrentMin(loc'[p].item_id)
             /\ (pc[p] = "idle" /\ pc'[p] = "bid_fallback") =>
                   /\ BidIdsOf(loc'[p].item_id) = {}
                   /\ GetItemsCurrentMin(loc'[p].item_id) =
                         auctions[loc'[p].auction_id].start_price
             /\ (pc[p] = "bid_fallback" /\ pc'[p] = "bid_insert") =>
                   loc'[p].current_min = auctions[loc[p].auction_id].start_price]_vars

C17_Witness ==
    \E p \in Procs :
        /\ pc[p] = "bid_insert"
        /\ BidIdsOf(loc[p].item_id) # {}
        /\ loc[p].current_min = GetItemsCurrentMin(loc[p].item_id)
        /\ loc[p].current_min < auctions[loc[p].auction_id].start_price

(* C18: every accepted bid value is start_price - k * decrement_step of the
   owning auction for some integer k >= 1. *)
C18_BidsOnStepGrid ==
    \A k \in 1..Len(bids) :
        LET a == auctions[items[bids[k].item_id].auction_id]
        IN  /\ a.start_price - bids[k].bid_value >= a.decrement_step
            /\ (a.start_price - bids[k].bid_value) % a.decrement_step = 0

C18_Witness ==
    /\ Len(bids) >= 2
    /\ bids[1].item_id = bids[2].item_id
    /\ bids[1].bid_value = bids[2].bid_value
    /\ bids[1].supplier_id # bids[2].supplier_id

(* C19: an auction whose status is CLOSED has an end_time at or before the
   current time. *)
C19_ClosedIsExpired ==
    \A a \in DOMAIN auctions :
        auctions[a].status = "CLOSED" => auctions[a].end_time <= now

====
